---- MODULE Spec2Model ----
(***************************************************************************)
(* Model of src/update-data.py: the cron job that fetches the metadata of  *)
(* the images created since the last update, filters them against the      *)
(* saved dataset and the image directory, runs the two models, and writes  *)
(* the merged dataset, the checkpoint ("last-updated") and the update log  *)
(* ("data-updates-log").  One action per statement group of the script;    *)
(* the files, the image directory, the remote catalog and the calendar are *)
(* the environment.                                                        *)
(***************************************************************************)
EXTENDS Integers, Sequences, FiniteSets, TLC

\* ---------------------------------------------------------------- bounds
\* One run of the script (SpecRun).
MaxName  == 2     \* filenames are 1..MaxName (ordered as the strings are)
MaxDb    == 1     \* length of the dataset before the run
MaxFetch == 3     \* number of records in one metadata response
\* Successive runs of the script (Spec).
MaxRerunName  == 1   \* filenames are 1..MaxRerunName
MaxRerunDb    == 1   \* length of the dataset before the first run
MaxRerunFetch == 1   \* number of records in one metadata response
MaxRuns       == 2   \* invocations of the script in one behaviour
\* Both.
MaxDay   == 1     \* days the calendar may advance

\* ---------------------------------------------------------------- helpers
Range(s) == {s[i] : i \in 1..Len(s)}

Count(x, s) == Cardinality({i \in 1..Len(s) : s[i] = x})

NoDup(s) == \A i, j \in 1..Len(s) : s[i] = s[j] => i = j

SeqsUpTo(S, n) == UNION {[1..k -> S] : k \in 0..n}

Min(S) == CHOOSE x \in S : \A y \in S : x <= y

RECURSIVE SortedSeq(_)
SortedSeq(S) == IF S = {} THEN <<>> ELSE <<Min(S)>> \o SortedSeq(S \ {Min(S)})

\* ---------------------------------------------------------------- calendar
\* date.today(): the day-th day counted from 12/30/1999.
DateOfDay(day) ==
    IF 30 + day <= 31
    THEN [y |-> 1999, m |-> 12, d |-> 30 + day]
    ELSE [y |-> 2000, m |-> 1,  d |-> day - 1]

\* Variant: day before month.
strftime_dm(dt) == <<dt.d, dt.m, dt.y % 100>>
\* strftime("%m/%d/%y"): month, day, two-digit year.
strftime(dt) == <<dt.m, dt.d, dt.y % 100>>

\* What a write of text that returns has put into a file: all of text.
Whole(text) == [text |-> text, all |-> TRUE]

\* What a write of text that fails after its first byte has put into a file:
\* the first characters of text, at least one and not all of them (how many
\* is not recorded; no statement of the script depends on it).
Part(text) == [text |-> text, all |-> FALSE]

\* The content of a truncated text file.
EmptyText == Whole(<<>>)

\* ---------------------------------------------------------------- numpy
\* fname in database_image_filenames
already_saved(fname, filenames) == \E i \in 1..Len(filenames) : filenames[i] = fname

\* The directory argument as in the module docstring (/home/geisha/images) and
\* with a trailing separator.
ImageDirs == {"images", "images/"}

\* image_home_dir + fname: the two strings joined, no separator added.  The
\* string <<"images/", f>> names the file f under the image directory, the
\* string <<"images", f>> a file beside the directory.
Concat(dir, fname) == <<dir, fname>>

\* not os.path.exists(image_home_dir + fname)
doesnt_exist(fname, dir, paths) == Concat(dir, fname) \notin paths

\* Variant: the image files are not opened.
ImagesReadable_unchecked(fnames, dir, paths) == TRUE
\* get_preds opens every image of the databunch at path/fname with
\* path=image_home_dir (line 76): the file fname under the directory, whether
\* or not the argument ends with a separator.
ImagesReadable(fnames, dir, paths) ==
    \A i \in 1..Len(fnames) : <<"images/", fnames[i]>> \in paths

\* The filenames that have a file under the image directory.
UnderImageDir(paths) == {p[2] : p \in {q \in paths : q[1] = "images/"}}

\* The loop of lines 61-66: images_to_remove after visiting fnames[1..k].
RECURSIVE images_to_remove(_, _, _, _, _)
images_to_remove(fnames, k, filenames, dir, paths) ==
    IF k = 0 THEN <<>>
    ELSE LET rest  == images_to_remove(fnames, k - 1, filenames, dir, paths)
             fname == fnames[k]
         IN  IF already_saved(fname, filenames) \/ doesnt_exist(fname, dir, paths)
             THEN Append(rest, fname)
             ELSE rest

\* Variant: a difference that keeps repeated values and their order.
setdiff1d_keepdups(ar1, ar2) == SelectSeq(ar1, LAMBDA x : x \notin Range(ar2))
\* np.setdiff1d: the sorted unique values of ar1 that are not in ar2.
setdiff1d(ar1, ar2) == SortedSeq(Range(ar1) \ Range(ar2))

\* np.append / torch.cat of two one-dimensional arrays.
np_append(arr, values) == arr \o values

\* Variant: >= in place of >.
HasNewImages_always(fnames) == Len(fnames) >= 0
\* if len(new_image_fnames) > 0
HasNewImages(fnames) == Len(fnames) > 0

\* Variant: the assertion is compiled out (python -O).
AssertStageCount_off(fnames, stage) == TRUE
\* assert len(new_image_fnames) == len(new_stage_preds[0])
AssertStageCount(fnames, stage) == Len(fnames) = Len(stage)

\* Variant: the assertion is compiled out (python -O).
AssertLocationsCount_off(stage, locations) == TRUE
\* assert len(new_stage_preds[0]) == len(new_locations_preds[0])
AssertLocationsCount(stage, locations) == Len(stage) = Len(locations)

\* get_preds(...)[0] when the model returns k rows: the row of the i-th image
\* is tagged with the image, a row beyond the input is tagged 0.
get_preds(fnames, k) == [i \in 1..k |-> IF i <= Len(fnames) THEN fnames[i] ELSE 0]

\* The pickled 3-tuple, written in full.
Pickle(filenames, stages, locations) ==
    [ok |-> TRUE, written |-> "all",
     filenames |-> filenames, stages |-> stages, locations |-> locations]
\* The file that open(..., 'wb') has truncated when pickle.dump fails before
\* any data reached it (no bytes, or the protocol header only).
EmptyPickle ==
    [ok |-> FALSE, written |-> "none",
     filenames |-> <<>>, stages |-> <<>>, locations |-> <<>>]
\* The file when pickle.dump fails after some whole frames of the data reached
\* it: the file ends at a frame boundary.
FramePickle ==
    [ok |-> FALSE, written |-> "frames",
     filenames |-> <<>>, stages |-> <<>>, locations |-> <<>>]
\* The file when pickle.dump fails after part of a frame reached it: the file
\* ends inside a frame.
TornPickle ==
    [ok |-> FALSE, written |-> "part",
     filenames |-> <<>>, stages |-> <<>>, locations |-> <<>>]
\* What pickle.load raises on a file it cannot read: UnpicklingError when the
\* data ends inside a frame, EOFError when it ends where the next frame or
\* opcode is expected.
load_error(file) == IF file.written = "part" THEN "UnpicklingError" ELSE "EOFError"

\* ---------------------------------------------------------------- state
VARIABLES
    \* the process
    argv,                      \* sys.argv (line 31)
    pc,                        \* the statement group to execute next
    error,                     \* the unhandled exception, "none" if none
    traceback,                 \* the statement group that raised it
    stdout,                    \* what print has written (lines 49, 81, 118, 121)
    image_home_dir,            \* line 34, "unset" while the name is unbound
    last_updated,              \* line 47
    new_image_fnames,          \* lines 54 and 68
    database_image_filenames,  \* lines 58 and 96
    database_image_stages,     \* lines 58 and 97
    database_image_locations,  \* lines 58 and 98
    models_loaded,             \* lines 84-85 have run
    new_stage_preds,           \* new_stage_preds[0], line 92
    new_locations_preds,       \* new_locations_preds[0], line 93
    current_date,              \* line 113
    date_today,                \* the day date.today() returned at line 113, -1 before
    \* the files
    tmpdir,                    \* temporary-downloads exists (line 41)
    csv_file,                  \* temporary-downloads/new_images.csv (line 52)
    db_file,                   \* ../data/database-image-predictions.pkl
    ckpt_file,                 \* last-updated: what the last write left in it
    log_file,                  \* data-updates-log: what each write appended to it
    \* the environment
    disk,                      \* the paths that exist in and beside the image directory
    catalog,                   \* the endpoint: its filenames, its last question and answer
    today,                     \* the day date.today() returns
    runs,                      \* invocations of the script so far
    \* history
    pre,                       \* the files and the day when this run started
    prev                       \* how the preceding run ended

procvars == <<argv, pc, error, traceback, stdout, image_home_dir, last_updated, new_image_fnames,
              database_image_filenames, database_image_stages, database_image_locations,
              models_loaded, new_stage_preds, new_locations_preds, current_date,
              date_today>>
filevars == <<tmpdir, csv_file, db_file, ckpt_file, log_file>>
envvars  == <<disk, catalog, today, runs>>
histvars == <<pre, prev>>
vars     == <<procvars, filevars, envvars, histvars>>

\* sys.argv: the script name, then the arguments.
ArgvSet == {<<"update-data.py">>} \cup
           {<<"update-data.py", d>> : d \in ImageDirs} \cup
           {<<"update-data.py", "images/", "extra">>}

\* The three files and the date as they are when a run starts.
Snapshot == [db |-> db_file, ckpt |-> ckpt_file, log |-> log_file, day |-> today]

NoPrev == [outcome |-> "none", saved |-> {}, eligible |-> {}]

\* The fetched filenames that are not saved yet and have a file under the
\* image directory.
EligibleSet(fetched, filenames, paths) ==
    {f \in Range(fetched) : f \notin Range(filenames) /\ f \in UnderImageDir(paths)}

\* The state when the script starts for the first time: a catalog of the
\* filenames fnames that answers with at most maxrecords records, a dataset of
\* at most maxdb of them, any files in and beside the image directory, and the
\* checkpoint of day 0.
Start(fnames, maxrecords, maxdb) ==
    /\ argv \in ArgvSet
    /\ pc = "args"
    /\ error = "none"
    /\ traceback = "none"
    /\ stdout = <<>>
    /\ image_home_dir = "unset"
    /\ last_updated = EmptyText
    /\ new_image_fnames = <<>>
    /\ database_image_filenames = <<>>
    /\ database_image_stages = <<>>
    /\ database_image_locations = <<>>
    /\ models_loaded = FALSE
    /\ new_stage_preds = <<>>
    /\ new_locations_preds = <<>>
    /\ current_date = <<>>
    /\ date_today = -1
    /\ tmpdir = FALSE
    /\ csv_file = <<>>
    /\ \E f \in {s \in SeqsUpTo(fnames, maxdb) : NoDup(s)} : db_file = Pickle(f, f, f)
    /\ ckpt_file = Whole(strftime(DateOfDay(0)))
    /\ log_file = <<>>
    /\ disk \in SUBSET (ImageDirs \X fnames)
    /\ catalog = [fnames |-> fnames, maxrecords |-> maxrecords,
                  asked |-> FALSE, since |-> EmptyText, answer |-> <<>>]
    /\ today = 0
    /\ runs = 1
    /\ pre = [db |-> db_file, ckpt |-> Whole(strftime(DateOfDay(0))), log |-> <<>>, day |-> 0]
    /\ prev = NoPrev

\* The first of successive runs.
Init == Start(1..MaxRerunName, MaxRerunFetch, MaxRerunDb)

\* A single run.
InitRun == Start(1..MaxName, MaxFetch, MaxDb)

\* An unhandled exception ends the process; the traceback names the step.
Raise(exc) ==
    /\ pc' = "aborted"
    /\ error' = exc
    /\ traceback' = pc

\* ---------------------------------------------------------------- actions
\* Lines 30-34.
ParseArgs ==
    /\ pc = "args"
    /\ IF Len(argv) = 1
       THEN /\ Raise("TypeError")
            /\ UNCHANGED image_home_dir
       ELSE /\ image_home_dir' = IF Len(argv) = 2 THEN argv[2] ELSE image_home_dir
            /\ pc' = "chdir"
            /\ UNCHANGED <<error, traceback>>
    /\ UNCHANGED <<argv, stdout, last_updated, new_image_fnames,
                   database_image_filenames, database_image_stages,
                   database_image_locations, models_loaded, new_stage_preds,
                   new_locations_preds, current_date, date_today>>
    /\ UNCHANGED <<filevars, envvars, histvars>>

\* Lines 36-43.
MakeTempDir ==
    /\ pc = "chdir"
    /\ tmpdir' = TRUE
    /\ pc' = "read_ckpt"
    /\ UNCHANGED <<argv, error, traceback, stdout, image_home_dir, last_updated, new_image_fnames,
                   database_image_filenames, database_image_stages,
                   database_image_locations, models_loaded, new_stage_preds,
                   new_locations_preds, current_date, date_today>>
    /\ UNCHANGED <<csv_file, db_file, ckpt_file, log_file>>
    /\ UNCHANGED <<envvars, histvars>>

\* Lines 45-49.
ReadCheckpoint ==
    /\ pc = "read_ckpt"
    /\ last_updated' = ckpt_file
    /\ stdout' = Append(stdout, "Checking for new images")
    /\ pc' = "fetch"
    /\ UNCHANGED <<argv, error, traceback, image_home_dir, new_image_fnames,
                   database_image_filenames, database_image_stages,
                   database_image_locations, models_loaded, new_stage_preds,
                   new_locations_preds, current_date, date_today>>
    /\ UNCHANGED <<filevars, envvars, histvars>>

\* What the endpoint answers to since=<since>: the answer it gave last time
\* when that was to the same question, any list of filenames otherwise.
Responses(since) ==
    IF catalog.asked /\ catalog.since = since
    THEN {catalog.answer}
    ELSE SeqsUpTo(catalog.fnames, catalog.maxrecords)

\* Lines 50-54.  urlretrieve raises before it has written new_images.csv or
\* after it (a response cut short), and read_csv raises on a payload it
\* cannot parse, which is then already in the file.
FetchMetadata ==
    /\ pc = "fetch"
    /\ \/ \E resp \in Responses(last_updated) :
             /\ catalog' = [catalog EXCEPT !.asked = TRUE, !.since = last_updated,
                                            !.answer = resp]
             /\ csv_file' = resp
             /\ new_image_fnames' = resp
             /\ pc' = "load"
             /\ UNCHANGED <<error, traceback>>
       \/ /\ Raise("URLError")
          /\ csv_file' \in {csv_file} \cup SeqsUpTo(catalog.fnames, catalog.maxrecords)
          /\ UNCHANGED <<catalog, new_image_fnames>>
       \/ /\ Raise("ParserError")
          /\ csv_file' \in SeqsUpTo(catalog.fnames, catalog.maxrecords)
          /\ UNCHANGED <<catalog, new_image_fnames>>
    /\ UNCHANGED <<argv, stdout, image_home_dir, last_updated,
                   database_image_filenames, database_image_stages,
                   database_image_locations, models_loaded, new_stage_preds,
                   new_locations_preds, current_date, date_today>>
    /\ UNCHANGED <<tmpdir, db_file, ckpt_file, log_file>>
    /\ UNCHANGED <<disk, today, runs, histvars>>

\* Lines 56-58.  open(..., 'rb') may fail on any file (line 57); pickle.load
\* raises on a file that an earlier failed save has left (line 58).
LoadExisting ==
    /\ pc = "load"
    /\ \/ /\ db_file.ok
          /\ database_image_filenames' = db_file.filenames
          /\ database_image_stages' = db_file.stages
          /\ database_image_locations' = db_file.locations
          /\ pc' = "filter"
          /\ UNCHANGED <<error, traceback>>
       \/ /\ ~db_file.ok
          /\ Raise(load_error(db_file))
          /\ UNCHANGED <<database_image_filenames, database_image_stages,
                         database_image_locations>>
       \/ /\ Raise("OSError")
          /\ UNCHANGED <<database_image_filenames, database_image_stages,
                         database_image_locations>>
    /\ UNCHANGED <<argv, stdout, image_home_dir, last_updated, new_image_fnames,
                   models_loaded, new_stage_preds, new_locations_preds, current_date, date_today>>
    /\ UNCHANGED <<filevars, envvars, histvars>>

\* Lines 60-68.  The first iteration reads image_home_dir, which no branch of
\* lines 31-34 has bound when there are extra arguments.
FilterNew ==
    /\ pc = "filter"
    /\ IF Len(new_image_fnames) > 0 /\ image_home_dir = "unset"
       THEN /\ Raise("NameError")
            /\ UNCHANGED new_image_fnames
       ELSE /\ new_image_fnames' =
                  setdiff1d(new_image_fnames,
                            images_to_remove(new_image_fnames, Len(new_image_fnames),
                                             database_image_filenames,
                                             image_home_dir, disk))
            /\ pc' = "branch"
            /\ UNCHANGED <<error, traceback>>
    /\ UNCHANGED <<argv, stdout, image_home_dir, last_updated,
                   database_image_filenames, database_image_stages,
                   database_image_locations, models_loaded, new_stage_preds,
                   new_locations_preds, current_date, date_today>>
    /\ UNCHANGED <<filevars, envvars, histvars>>

\* Lines 70-71 and 120-121.
Branch ==
    /\ pc = "branch"
    /\ IF HasNewImages(new_image_fnames)
       THEN /\ pc' = "databunch"
            /\ UNCHANGED stdout
       ELSE /\ stdout' = Append(stdout, "Data already up to date")
            /\ pc' = "done"
    /\ UNCHANGED <<argv, error, traceback, image_home_dir, last_updated, new_image_fnames,
                   database_image_filenames, database_image_stages,
                   database_image_locations, models_loaded, new_stage_preds,
                   new_locations_preds, current_date, date_today>>
    /\ UNCHANGED <<filevars, envvars, histvars>>

\* The number of rows a model may return for n images: one fewer, n, one more.
RowCounts(n) == {k \in {n - 1, n, n + 1} : k >= 0}

\* Lines 73-81.
BuildDatabunch ==
    /\ pc = "databunch"
    /\ \/ /\ stdout' = Append(stdout, "Calculating new predictions")
          /\ pc' = "load_models"
          /\ UNCHANGED <<error, traceback>>
       \/ /\ Raise("RuntimeError")
          /\ UNCHANGED stdout
    /\ UNCHANGED <<models_loaded, new_stage_preds, new_locations_preds>>
    /\ UNCHANGED <<argv, image_home_dir, last_updated, new_image_fnames,
                   database_image_filenames, database_image_stages,
                   database_image_locations, current_date, date_today>>
    /\ UNCHANGED <<filevars, envvars, histvars>>

\* Lines 83-89.
LoadModels ==
    /\ pc = "load_models"
    /\ \/ /\ models_loaded' = TRUE
          /\ pc' = "stage_preds"
          /\ UNCHANGED <<error, traceback>>
       \/ /\ Raise("FileNotFoundError")
          /\ UNCHANGED models_loaded
    /\ UNCHANGED <<stdout, new_stage_preds, new_locations_preds>>
    /\ UNCHANGED <<argv, image_home_dir, last_updated, new_image_fnames,
                   database_image_filenames, database_image_stages,
                   database_image_locations, current_date, date_today>>
    /\ UNCHANGED <<filevars, envvars, histvars>>

\* Lines 91-92.  The stage model reads the images and returns some number of
\* rows, or raises; it raises when an image cannot be opened.
StagePreds ==
    /\ pc = "stage_preds"
    /\ \/ /\ ImagesReadable(new_image_fnames, image_home_dir, disk)
          /\ \E k \in RowCounts(Len(new_image_fnames)) :
                /\ new_stage_preds' = get_preds(new_image_fnames, k)
                /\ pc' = "locations_preds"
                /\ UNCHANGED <<error, traceback>>
       \/ /\ ImagesReadable(new_image_fnames, image_home_dir, disk)
          /\ Raise("RuntimeError")
          /\ UNCHANGED new_stage_preds
       \/ /\ ~ImagesReadable(new_image_fnames, image_home_dir, disk)
          /\ Raise("FileNotFoundError")
          /\ UNCHANGED new_stage_preds
    /\ UNCHANGED <<stdout, models_loaded, new_locations_preds>>
    /\ UNCHANGED <<argv, image_home_dir, last_updated, new_image_fnames,
                   database_image_filenames, database_image_stages,
                   database_image_locations, current_date, date_today>>
    /\ UNCHANGED <<filevars, envvars, histvars>>

\* Line 93.  The locations model reads the images and returns some number of
\* rows, or raises; it raises when an image cannot be opened.
LocationsPreds ==
    /\ pc = "locations_preds"
    /\ \/ /\ ImagesReadable(new_image_fnames, image_home_dir, disk)
          /\ \E k \in RowCounts(Len(new_image_fnames)) :
                /\ new_locations_preds' = get_preds(new_image_fnames, k)
                /\ pc' = "merge"
                /\ UNCHANGED <<error, traceback>>
       \/ /\ ImagesReadable(new_image_fnames, image_home_dir, disk)
          /\ Raise("RuntimeError")
          /\ UNCHANGED new_locations_preds
       \/ /\ ~ImagesReadable(new_image_fnames, image_home_dir, disk)
          /\ Raise("FileNotFoundError")
          /\ UNCHANGED new_locations_preds
    /\ UNCHANGED <<stdout, models_loaded, new_stage_preds>>
    /\ UNCHANGED <<argv, image_home_dir, last_updated, new_image_fnames,
                   database_image_filenames, database_image_stages,
                   database_image_locations, current_date, date_today>>
    /\ UNCHANGED <<filevars, envvars, histvars>>

\* Lines 95-98.
Merge ==
    /\ pc = "merge"
    /\ database_image_filenames' = np_append(database_image_filenames, new_image_fnames)
    /\ database_image_stages' = np_append(database_image_stages, new_stage_preds)
    /\ database_image_locations' = np_append(database_image_locations, new_locations_preds)
    /\ pc' = "assert"
    /\ UNCHANGED <<argv, error, traceback, stdout, image_home_dir, last_updated, new_image_fnames,
                   models_loaded, new_stage_preds, new_locations_preds, current_date, date_today>>
    /\ UNCHANGED <<filevars, envvars, histvars>>

\* Lines 99-100.
CheckCounts ==
    /\ pc = "assert"
    /\ IF /\ AssertStageCount(new_image_fnames, new_stage_preds)
          /\ AssertLocationsCount(new_stage_preds, new_locations_preds)
       THEN /\ pc' = "save"
            /\ UNCHANGED <<error, traceback>>
       ELSE Raise("AssertionError")
    /\ UNCHANGED <<argv, stdout, image_home_dir, last_updated, new_image_fnames,
                   database_image_filenames, database_image_stages,
                   database_image_locations, models_loaded, new_stage_preds,
                   new_locations_preds, current_date, date_today>>
    /\ UNCHANGED <<filevars, envvars, histvars>>

\* Variant: the exception is swallowed and the script goes on.
AfterFailedSave_swallowed == "write_ckpt"
\* Where the script goes when save_object raises: the exception propagates.
AfterFailedSave == "aborted"

\* Lines 102-110.  open(..., 'wb') truncates the file, so a write that fails
\* leaves the old file (open failed), an empty one or a part of the new one.
SaveObject ==
    /\ pc = "save"
    /\ \/ /\ db_file' = Pickle(database_image_filenames, database_image_stages,
                               database_image_locations)
          /\ pc' = "write_ckpt"
          /\ UNCHANGED <<error, traceback>>
       \/ /\ db_file' \in {db_file, EmptyPickle, FramePickle, TornPickle}
          /\ pc' = AfterFailedSave
          /\ error' = "OSError"
          /\ traceback' = pc
    /\ UNCHANGED <<argv, stdout, image_home_dir, last_updated, new_image_fnames,
                   database_image_filenames, database_image_stages,
                   database_image_locations, models_loaded, new_stage_preds,
                   new_locations_preds, current_date, date_today>>
    /\ UNCHANGED <<tmpdir, csv_file, ckpt_file, log_file>>
    /\ UNCHANGED <<envvars, histvars>>

\* Lines 112-115.  open(..., "w") truncates the file, so a write that fails
\* leaves the old checkpoint (open failed), an empty file or the first
\* characters of the date.
WriteCheckpoint ==
    /\ pc = "write_ckpt"
    /\ date_today' = today
    /\ current_date' = strftime(DateOfDay(today))
    /\ \/ /\ ckpt_file' = Whole(current_date')
          /\ pc' = "write_log"
          /\ UNCHANGED <<error, traceback>>
       \/ /\ ckpt_file' \in {ckpt_file, EmptyText, Part(current_date')}
          /\ Raise("OSError")
    /\ UNCHANGED <<argv, stdout, image_home_dir, last_updated, new_image_fnames,
                   database_image_filenames, database_image_stages,
                   database_image_locations, models_loaded, new_stage_preds,
                   new_locations_preds>>
    /\ UNCHANGED <<tmpdir, csv_file, db_file, log_file>>
    /\ UNCHANGED <<envvars, histvars>>

\* The line the f-string of line 117 formats.
LogLine(dt, fnames) == [date |-> dt, count |-> Len(fnames), fnames |-> fnames]

\* Lines 116-118.  open(..., "a") keeps the log (the sequence of the writes
\* appended to it), so a write that fails leaves the log followed by nothing or
\* by the first characters of the line.
AppendLog ==
    /\ pc = "write_log"
    /\ \/ /\ log_file' = Append(log_file, Whole(LogLine(current_date, new_image_fnames)))
          /\ stdout' = Append(stdout, "Updated with images")
          /\ pc' = "done"
          /\ UNCHANGED <<error, traceback>>
       \/ /\ log_file' \in {log_file,
                            Append(log_file, Part(LogLine(current_date, new_image_fnames)))}
          /\ Raise("OSError")
          /\ UNCHANGED stdout
    /\ UNCHANGED <<argv, image_home_dir, last_updated, new_image_fnames,
                   database_image_filenames, database_image_stages,
                   database_image_locations, models_loaded, new_stage_preds,
                   new_locations_preds, current_date, date_today>>
    /\ UNCHANGED <<tmpdir, csv_file, db_file, ckpt_file>>
    /\ UNCHANGED <<envvars, histvars>>

\* The cron job starts the script again (module docstring, line 5).
NewRun ==
    /\ pc \in {"done", "aborted"}
    /\ runs < MaxRuns
    /\ runs' = runs + 1
    /\ argv' \in ArgvSet
    /\ pc' = "args"
    /\ error' = "none"
    /\ traceback' = "none"
    /\ stdout' = <<>>
    /\ image_home_dir' = "unset"
    /\ last_updated' = EmptyText
    /\ new_image_fnames' = <<>>
    /\ database_image_filenames' = <<>>
    /\ database_image_stages' = <<>>
    /\ database_image_locations' = <<>>
    /\ models_loaded' = FALSE
    /\ new_stage_preds' = <<>>
    /\ new_locations_preds' = <<>>
    /\ current_date' = <<>>
    /\ date_today' = -1
    /\ pre' = [db |-> db_file, ckpt |-> ckpt_file, log |-> log_file, day |-> today]
    /\ prev' = [outcome  |-> pc,
                saved    |-> Range(pre.db.filenames),
                eligible |-> IF traceback \in {"args", "fetch"}
                             THEN {}
                             ELSE EligibleSet(csv_file, pre.db.filenames, disk)]
    /\ UNCHANGED <<filevars, disk, catalog, today>>

\* Midnight passes, during a run or between two runs.
Tick ==
    /\ today < MaxDay
    /\ today' = today + 1
    /\ UNCHANGED <<procvars, filevars, disk, catalog, runs, histvars>>

\* The statements of the script.
Run ==
    \/ ParseArgs
    \/ MakeTempDir
    \/ ReadCheckpoint
    \/ FetchMetadata
    \/ LoadExisting
    \/ FilterNew
    \/ Branch
    \/ BuildDatabunch
    \/ LoadModels
    \/ StagePreds
    \/ LocationsPreds
    \/ Merge
    \/ CheckCounts
    \/ SaveObject
    \/ WriteCheckpoint
    \/ AppendLog

\* One run of the script while the calendar advances.
NextRun ==
    \/ Run
    \/ Tick

Next ==
    \/ Run
    \/ NewRun
    \/ Tick

\* Successive runs of the script.
Spec == Init /\ [][Next]_vars

\* One run of the script.
SpecRun == InitRun /\ [][NextRun]_vars

\* ---------------------------------------------------------------- claims
\* The run has got past the filter of lines 60-68.
PastFilter ==
    pc \in {"branch", "databunch", "load_models", "stage_preds", "locations_preds",
            "merge", "assert", "save", "write_ckpt", "write_log", "done"}

\* save_object has returned in this run.
PastSave == pc \in {"write_ckpt", "write_log", "done"}

\* The stage model's get_preds has returned in this run.
StageReturned ==
    \/ pc \in {"locations_preds", "merge", "assert", "save", "write_ckpt", "write_log",
               "done"}
    \/ pc = "aborted" /\ traceback \in {"locations_preds", "assert", "save",
                                         "write_ckpt", "write_log"}

\* Both get_preds calls have returned in this run.
InferenceReturned ==
    \/ pc \in {"merge", "assert", "save", "write_ckpt", "write_log", "done"}
    \/ pc = "aborted" /\ traceback \in {"assert", "save", "write_ckpt", "write_log"}

\* The filenames this run fetched that are not saved yet and have a file under
\* the image directory.
Eligible == EligibleSet(csv_file, pre.db.filenames, disk)

\* C1: the checkpoint and the log differ from their pre-run contents only
\* when the dataset file holds the merged dataset this run wrote; a run that
\* aborts in the dataset write leaves the checkpoint and the log as they were.
C1_CheckpointAfterDataset ==
    /\ (ckpt_file # pre.ckpt \/ log_file # pre.log) =>
          /\ pc \in {"write_log", "done", "aborted"}
          /\ db_file = Pickle(database_image_filenames, database_image_stages,
                              database_image_locations)
          /\ db_file # pre.db
    /\ traceback = "save" => (pc = "aborted" /\ ckpt_file = pre.ckpt /\ log_file = pre.log)

\* C1 witness: the dataset write failed half way and the run has aborted.
C1_Witness ==
    pc = "aborted" /\ traceback = "save" /\ db_file = TornPickle /\ pre.db.ok

\* C2: when a run completes after an aborted run, every filename saved before
\* the aborted run, every eligible image of the aborted run and every eligible
\* image of the completed run is in the persisted dataset exactly once.
C2_RerunSafe ==
    (pc = "done" /\ prev.outcome = "aborted") =>
        /\ db_file.ok
        /\ \A f \in prev.saved \cup prev.eligible \cup Eligible :
              Count(f, db_file.filenames) = 1
        /\ NoDup(db_file.filenames)

\* C3: with an empty filtered set the run goes from the filter straight to its
\* end: no model is loaded, no prediction is computed, the dataset file, the
\* checkpoint and the log keep their pre-run contents, and the run ends
\* without an error after reporting that the data is up to date.
C3_EmptyIsNoop ==
    (PastFilter /\ Len(new_image_fnames) = 0) =>
        /\ pc \in {"branch", "done"}
        /\ ~models_loaded
        /\ new_stage_preds = <<>> /\ new_locations_preds = <<>>
        /\ db_file = pre.db /\ ckpt_file = pre.ckpt /\ log_file = pre.log
        /\ error = "none"
        /\ pc = "done" =>
              stdout = <<"Checking for new images", "Data already up to date">>

\* C3 witness: records were fetched, all of them were filtered out, and the
\* run has ended.
C3_Witness ==
    pc = "done" /\ Len(new_image_fnames) = 0 /\ Len(csv_file) > 0

\* C4: the three persisted sequences have the same length, and once the
\* dataset is written that length is the pre-run length plus the number of
\* accepted images.
C4_EqualLengths ==
    /\ db_file.ok =>
          /\ Len(db_file.filenames) = Len(db_file.stages)
          /\ Len(db_file.stages) = Len(db_file.locations)
    /\ PastSave =>
          Len(db_file.filenames) = Len(pre.db.filenames) + Len(new_image_fnames)

\* C4 witness: a run that started from a non-empty dataset and accepted an
\* image has completed.
C4_Witness ==
    pc = "done" /\ Len(new_image_fnames) > 0 /\ Len(pre.db.filenames) > 0

\* C5: if no filename is twice in the dataset before a run, none is twice in
\* it at any point of the run.
C5_FilenamesUnique ==
    (pre.db.ok /\ NoDup(pre.db.filenames)) => (db_file.ok => NoDup(db_file.filenames))

\* C5 witness: the response listed one new filename twice and an already
\* saved filename, and the run has written the dataset.
C5_Witness ==
    /\ pc = "done"
    /\ \E f \in Range(new_image_fnames) : Count(f, csv_file) = 2
    /\ \E f \in Range(csv_file) : f \in Range(pre.db.filenames)

\* C6 as stated: after the run, no fetched filename without a file under the
\* image directory is in the persisted dataset.
C6_NeverAppears ==
    pc = "done" =>
        \A f \in Range(csv_file) :
            f \notin UnderImageDir(disk) => f \notin Range(db_file.filenames)

\* C6 amended: a filename with no file under the image directory is not put
\* into the persisted dataset by the run: every filename in the persisted
\* dataset was there before the run or has a file under the image directory.
C6_NeverAdded ==
    \A f \in Range(db_file.filenames) :
        f \notin Range(pre.db.filenames) => f \in UnderImageDir(disk)

\* C6 witness: a run that fetched a new filename with no file under the image
\* directory, and accepted another image, has written the dataset and ended.
C6_Witness ==
    /\ pc = "done"
    /\ Len(new_image_fnames) > 0
    /\ \E f \in Range(csv_file) :
          f \notin UnderImageDir(disk) /\ f \notin Range(pre.db.filenames)

\* C7: the filter output lists, once each, exactly the fetched filenames that
\* are not in the existing dataset and are in the image directory, and the
\* dataset written is the pre-run filenames followed by the filter output.
C7_FilterExact ==
    /\ PastFilter =>
          /\ Range(new_image_fnames) = Eligible
          /\ NoDup(new_image_fnames)
    /\ PastSave => db_file.filenames = pre.db.filenames \o new_image_fnames

\* C8: once a model has returned a number of rows different from the number
\* of filtered filenames, the run gets no further than the assertions, ends
\* with an exception (the AssertionError when both models returned), and the
\* dataset file, the checkpoint and the log keep their pre-run contents.
C8_MismatchIsFatal ==
    (\/ StageReturned /\ Len(new_stage_preds) # Len(new_image_fnames)
     \/ InferenceReturned /\ Len(new_locations_preds) # Len(new_image_fnames)) =>
        /\ pc \in {"locations_preds", "merge", "assert", "aborted"}
        /\ pc = "aborted" =>
              /\ traceback \in {"locations_preds", "assert"}
              /\ traceback = "assert" => error = "AssertionError"
        /\ db_file = pre.db /\ ckpt_file = pre.ckpt /\ log_file = pre.log

\* C8 witness: the stage model returned the right number of rows, the
\* locations model one too few, and the assertion has ended the run.
C8_Witness ==
    /\ pc = "aborted"
    /\ error = "AssertionError"
    /\ Len(new_stage_preds) = Len(new_image_fnames)
    /\ Len(new_locations_preds) < Len(new_image_fnames)

\* C9: without an argument the run ends at the argument check before any
\* side effect, and with any number of arguments the image directory is the
\* first of them.
C9_FirstArgumentIsUsed ==
    /\ (Len(argv) = 1 /\ pc # "args") =>
          /\ pc = "aborted" /\ traceback = "args"
          /\ db_file = pre.db /\ ckpt_file = pre.ckpt /\ log_file = pre.log
    /\ (Len(argv) >= 2 /\ pc # "args") =>
          /\ image_home_dir = argv[2]
          /\ error # "NameError"

\* C10: the checkpoint differs from its pre-run content only in a run that
\* accepted at least one image; after a completed run that accepted images it
\* is the date on which the run wrote it (a day between the run's start and
\* now) written whole as month, day, two-digit year, and after a run with an
\* empty filtered set it is the pre-run checkpoint.
C10_CheckpointDate ==
    /\ ckpt_file # pre.ckpt =>
          (Len(new_image_fnames) > 0 /\ pc \in {"write_log", "done", "aborted"})
    /\ (pc = "done" /\ Len(new_image_fnames) > 0) =>
          /\ date_today \in pre.day..today
          /\ ckpt_file.all
          /\ ckpt_file.text = <<DateOfDay(date_today).m, DateOfDay(date_today).d,
                                DateOfDay(date_today).y % 100>>
    /\ (pc = "done" /\ Len(new_image_fnames) = 0) => ckpt_file = pre.ckpt

\* C10 witness: a second run, on a later day than the checkpoint, accepted
\* images and has completed with the checkpoint moved.
C10_Witness ==
    pc = "done" /\ Len(new_image_fnames) > 0 /\ ckpt_file # pre.ckpt /\ runs > 1

TypeOK ==
    /\ pc \in {"args", "chdir", "read_ckpt", "fetch", "load", "filter", "branch",
               "databunch", "load_models", "stage_preds", "locations_preds", "merge", "assert", "save", "write_ckpt", "write_log",
               "done", "aborted"}
    /\ runs \in 1..MaxRuns
    /\ today \in 0..MaxDay
    /\ disk \subseteq ImageDirs \X catalog.fnames
====
